---------------------------- MODULE Spec2Model ----------------------------
(***************************************************************************)
(* A model of dkr.core.didding (did-webs-resolver): the DID URI parser and *)
(* normaliser, the verification-method generator, the DID document         *)
(* generator with the designated-alias lookup, and the did:web / did:webs  *)
(* scheme converter.                                                       *)
(*                                                                         *)
(* Python strings are sequences of one-character strings.  The regular     *)
(* expressions are modelled by the leftmost-first backtracking match that  *)
(* Python's re performs on them.  Characters outside the printable ASCII   *)
(* range (newlines, non-ASCII digits) do not occur in the inputs.          *)
(***************************************************************************)
EXTENDS Integers, Sequences, FiniteSets, TLC

VARIABLES
    did,        \* DID session: the DID string the caller holds
    parts,      \* DID session: the components the DID string was written from
    out,        \* DID session: result of the last call
    prev,       \* DID session: result of the call before the last one
    op,         \* DID session: name of the last operation called
    n,          \* DID session: number of strip_query applications so far
    vmIn,       \* VM session: arguments of generate_verification_methods
    vmOut,      \* VM session: its result
    hby,        \* Habery: habs, kevers and the credential registry
    docOut,     \* Habery session: the last call and its result
    heap,       \* Converter session: the document objects, by reference
    conv        \* Converter session: call history (arguments, snapshots, results)

didVars == <<did, parts, out, prev, op, n>>
vmVars == <<vmIn, vmOut>>
docVars == <<hby, docOut>>
convVars == <<heap, conv>>
vars == <<didVars, vmVars, docVars, convVars>>

-----------------------------------------------------------------------------
(* Bounds of the model *)

\* strip_query is applied at most this many times in a row
MaxApply == 2

-----------------------------------------------------------------------------
(* Strings *)

\* Python's None; no string equals it (every character is one-character long)
None == <<"<None>">>

\* a session component that is not in use, or a result not yet returned
Idle == [idle |-> TRUE]

Ok(v) == [ok |-> TRUE, val |-> v]
Err(e) == [ok |-> FALSE, err |-> e]

UpperChars == <<"A", "B", "C", "D", "E", "F", "G", "H", "I", "J", "K", "L", "M", "N", "O", "P", "Q", "R", "S", "T", "U", "V", "W", "X", "Y", "Z">>
LowerChars == <<"a", "b", "c", "d", "e", "f", "g", "h", "i", "j", "k", "l", "m", "n", "o", "p", "q", "r", "s", "t", "u", "v", "w", "x", "y", "z">>
Digits == {"0", "1", "2", "3", "4", "5", "6", "7", "8", "9"}
B64Chars == {UpperChars[i] : i \in 1..26} \cup {LowerChars[i] : i \in 1..26} \cup Digits \cup {"-", "_"}

\* case folding of one character, as re.IGNORECASE compares literals
LowerChar(c) ==
    IF \E i \in 1..26 : UpperChars[i] = c
    THEN LowerChars[CHOOSE i \in 1..26 : UpperChars[i] = c]
    ELSE c

\* s[i..j], empty when j < i
Slice(s, i, j) == [k \in 1..(j - i + 1) |-> s[i + k - 1]]

\* str.startswith(lit): case-sensitive
StartsWith(s, lit) ==
    /\ Len(s) >= Len(lit)
    /\ \A k \in 1..Len(lit) : s[k] = lit[k]

\* str.endswith(lit)
EndsWith(s, lit) ==
    /\ Len(s) >= Len(lit)
    /\ \A k \in 1..Len(lit) : s[Len(s) - Len(lit) + k] = lit[k]

\* lit occurs in s at position i, case-sensitive
OccursAt(s, i, lit) ==
    /\ i + Len(lit) - 1 <= Len(s)
    /\ \A k \in 1..Len(lit) : s[i + k - 1] = lit[k]

\* the literal lit (lower case) matches s at position i under re.IGNORECASE
MatchesCI(s, i, lit) ==
    /\ i + Len(lit) - 1 <= Len(s)
    /\ \A k \in 1..Len(lit) : LowerChar(s[i + k - 1]) = lit[k]

\* `lit in s`
Contains(s, lit) == \E i \in 1..Len(s) : OccursAt(s, i, lit)

\* str.replace(old, new): every non-overlapping occurrence, left to right.
\* From position i: the text up to the next occurrence of old is kept, the
\* occurrence is replaced, and the scan goes on after it.
RECURSIVE ReplaceFrom(_, _, _, _)
ReplaceFrom(s, i, old, new) ==
    LET Scan(found) ==
            IF found = {} THEN Slice(s, i, Len(s))
            ELSE LET Next(j) ==
                         Slice(s, i, j - 1) \o new \o ReplaceFrom(s, j + Len(old), old, new) IN
                 Next(CHOOSE j \in found : \A k \in found : j <= k) IN
    Scan({j \in i..Len(s) : OccursAt(s, j, old)})

Replace(s, old, new) == ReplaceFrom(s, 1, old, new)

\* formatting of a value inside an f-string: None prints as the text None
Fmt(x) == IF x = None THEN <<"N", "o", "n", "e">> ELSE x

\* first position >= i whose character is in the set stop, or Len(s) + 1
RunEnd(s, i, stop) ==
    LET First(found) ==
            IF found = {} THEN Len(s) + 1
            ELSE CHOOSE j \in found : \A k \in found : j <= k IN
    IF i > Len(s) THEN i ELSE First({j \in i..Len(s) : s[j] \in stop})

\* first position >= i whose character is not a digit, or Len(s) + 1
DigitsEnd(s, i) ==
    LET First(found) ==
            IF found = {} THEN Len(s) + 1
            ELSE CHOOSE j \in found : \A k \in found : j <= k IN
    IF i > Len(s) THEN i ELSE First({j \in i..Len(s) : s[j] \notin Digits})

-----------------------------------------------------------------------------
(* String literals of the source *)

DID_WEB == <<"d", "i", "d", ":", "w", "e", "b">>
DID_WEBS == <<"d", "i", "d", ":", "w", "e", "b", "s">>
DID_KERI == <<"d", "i", "d", ":", "k", "e", "r", "i">>
DID_WEB_COLON == DID_WEB \o <<":">>
DID_WEBS_COLON == DID_WEBS \o <<":">>
DID_KERI_COLON == DID_KERI \o <<":">>
PCT_3A_UPPER == <<"%", "3", "A">>
PCT_3A_LOWER == <<"%", "3", "a">>

-----------------------------------------------------------------------------
(* keri.core.coring.Prefixer(qb64=aid): the identifier-prefix check.        *)
(* It reads the derivation code and the 44 characters the code calls for,  *)
(* and ignores whatever follows them.                                      *)

PrefixCodes == {"B", "D", "E", "F", "G", "H", "I"}
PrefixZeroPad == {UpperChars[i] : i \in 1..16}

ValidPrefix(aid) ==
    /\ aid # None
    /\ Len(aid) >= 44
    /\ aid[1] \in PrefixCodes
    /\ aid[2] \in PrefixZeroPad
    /\ \A k \in 1..44 : aid[k] \in B64Chars

-----------------------------------------------------------------------------
(* DID_KERI_RE and parse_did_keri *)

\* \Adid:keri:(?P<aid>[^:]+)\Z with re.IGNORECASE: the aid group, or None
DID_KERI_RE(s) ==
    IF /\ MatchesCI(s, 1, DID_KERI_COLON)
       /\ Len(s) > Len(DID_KERI_COLON)
       /\ RunEnd(s, Len(DID_KERI_COLON) + 1, {":"}) = Len(s) + 1
    THEN Slice(s, Len(DID_KERI_COLON) + 1, Len(s))
    ELSE None

parse_did_keri(s) ==
    LET Parsed(aid) ==
            IF aid = None THEN Err("ValueError")
            ELSE IF ~ValidPrefix(aid) THEN Err("ValueError")
            ELSE Ok(aid) IN
    Parsed(DID_KERI_RE(s))

-----------------------------------------------------------------------------
(* DID_WEBS_RE, DID_WEBS_UNENCODED_PORT_RE and parse_did_webs *)

NoMatch == [matched |-> FALSE]

\* (?::(?P<aid>[^:?]+))(?P<query>\?.*)?\Z tried at position j
AidQueryAt(s, j) ==
    LET Groups(k) ==
            IF k = j + 1 THEN NoMatch
            ELSE IF k = Len(s) + 1
                 THEN [matched |-> TRUE, aid |-> Slice(s, j + 1, k - 1), query |-> None]
            ELSE IF s[k] = "?"
                 THEN [matched |-> TRUE, aid |-> Slice(s, j + 1, k - 1), query |-> Slice(s, k, Len(s))]
            ELSE NoMatch IN
    IF j > Len(s) \/ s[j] # ":" THEN NoMatch
    ELSE Groups(RunEnd(s, j + 1, {":", "?"}))

\* (?::(?P<path>.+?))?(?::(?P<aid>...))(?P<query>...)?\Z tried at position pos:
\* the path group is tried first and is lazy (shortest path first), then the
\* match without a path
PathAidQueryAt(s, pos) ==
    LET WithPath(j, m) ==
            [matched |-> TRUE, path |-> Slice(s, pos + 1, j - 1), aid |-> m.aid, query |-> m.query]
        Shortest(ends) == CHOOSE x \in ends : \A y \in ends : x <= y
        PathEndingAt(j) == WithPath(j, AidQueryAt(s, j))
        WithoutPath(m) ==
            IF m.matched
            THEN [matched |-> TRUE, path |-> None, aid |-> m.aid, query |-> m.query]
            ELSE NoMatch
        Groups(ends) ==
            IF ends # {} THEN PathEndingAt(Shortest(ends))
            ELSE WithoutPath(AidQueryAt(s, pos)) IN
    IF pos > Len(s) \/ s[pos] # ":" THEN NoMatch
    ELSE Groups({j \in (pos + 2)..Len(s) : s[j] = ":" /\ AidQueryAt(s, j).matched})

\* \Adid:web(s)?:(?P<domain>[^%:]+)(?:<sep>(?P<port>\d+))?... with
\* re.IGNORECASE, where sep is %3a (DID_WEBS_RE) or : (the unencoded-port
\* expression); the port group is tried first, then the match without a port
WebsMatch(s, sep) ==
    IF ~MatchesCI(s, 1, DID_WEB) THEN NoMatch
    ELSE LET Groups(p, e, q, k, withPort, noPort) ==
                 IF e = p + 1 THEN NoMatch
                 ELSE IF withPort.matched
                      THEN [matched |-> TRUE, domain |-> Slice(s, p + 1, e - 1),
                            port |-> Slice(s, q, k - 1), path |-> withPort.path,
                            aid |-> withPort.aid, query |-> withPort.query]
                 ELSE IF noPort.matched
                      THEN [matched |-> TRUE, domain |-> Slice(s, p + 1, e - 1),
                            port |-> None, path |-> noPort.path,
                            aid |-> noPort.aid, query |-> noPort.query]
                 ELSE NoMatch
             Rest(p, e, q, k) ==
                 Groups(p, e, q, k,
                        IF MatchesCI(s, e, sep) /\ k > q THEN PathAidQueryAt(s, k) ELSE NoMatch,
                        PathAidQueryAt(s, e))
             Port(p, e, q) == Rest(p, e, q, DigitsEnd(s, q))
             Domain(p, e) == Port(p, e, e + Len(sep))
             Scheme(p) ==
                 IF p > Len(s) \/ s[p] # ":" THEN NoMatch
                 ELSE Domain(p, RunEnd(s, p + 1, {"%", ":"})) IN
         Scheme(IF Len(s) >= 8 /\ LowerChar(s[8]) = "s" THEN 9 ELSE 8)

DID_WEBS_RE(s) == WebsMatch(s, PCT_3A_LOWER)

DID_WEBS_UNENCODED_PORT_RE(s) == WebsMatch(s, <<":">>)

parse_did_webs(s) ==
    LET Parsed(m) ==
            IF ~m.matched THEN Err("ValueError")
            ELSE IF ~ValidPrefix(m.aid) THEN Err("ValueError")
            ELSE Ok([domain |-> m.domain, port |-> m.port, path |-> m.path,
                     aid |-> m.aid, query |-> m.query]) IN
    Parsed(DID_WEBS_RE(s))

-----------------------------------------------------------------------------
(* re_encode_invalid_did_webs and re_encode_invalid_did *)

re_encode_invalid_did_webs(s) ==
    LET Encoded(m) ==
            IF ~m.matched THEN Err("ValueError")
            ELSE IF ~ValidPrefix(m.aid) THEN Err("ValueError")
            ELSE Ok(DID_WEBS_COLON \o m.domain
                    \o (IF m.port # None THEN PCT_3A_UPPER \o m.port ELSE <<>>)
                    \o (IF m.path # None THEN <<":">> \o m.path ELSE <<>>)
                    \o <<":">> \o m.aid
                    \o (IF m.query # None THEN m.query ELSE <<>>)) IN
    Encoded(DID_WEBS_UNENCODED_PORT_RE(s))

re_encode_invalid_did(s) ==
    IF StartsWith(s, DID_WEBS_COLON) THEN re_encode_invalid_did_webs(s)
    ELSE IF StartsWith(s, DID_KERI_COLON)
         THEN LET Encoded(r) == IF r.ok THEN Ok(DID_KERI_COLON \o r.val) ELSE r IN
              Encoded(parse_did_keri(s))
    ELSE Err("ValueError")

-----------------------------------------------------------------------------
(* strip_query *)

strip_query(s) ==
    IF StartsWith(s, DID_WEBS_COLON) \/ StartsWith(s, DID_WEB_COLON)
    THEN LET Stripped(r) ==
                 IF ~r.ok THEN r
                 ELSE IF r.val.query = None \/ r.val.query = <<>> THEN Ok(s)
                 ELSE Ok(DID_WEBS_COLON \o Fmt(r.val.domain) \o PCT_3A_UPPER \o Fmt(r.val.port)
                         \o <<":">> \o Fmt(r.val.path) \o <<":">> \o Fmt(r.val.aid)) IN
         Stripped(parse_did_webs(s))
    ELSE Ok(s)

-----------------------------------------------------------------------------
(* Inputs of the DID session: DID strings written from their components *)

AID_A == <<"E", "K", "Y", "L", "U", "M", "m", "N", "P", "Z", "e", "E", "s", "7", "7", "Z", "v", "c", "l", "f", "0", "b", "S", "N", "5", "I", "N", "-", "m", "L", "f", "L", "p", "x", "2", "y", "S", "b", "-", "H", "D", "l", "k", "4">>
AID_B == <<"E", "N", "6", "O", "h", "5", "X", "S", "D", "5", "_", "q", "2", "H", "g", "u", "-", "a", "q", "p", "d", "f", "b", "V", "e", "p", "d", "p", "Y", "p", "F", "l", "g", "z", "6", "z", "v", "J", "L", "5", "b", "_", "r", "5">>
\* fails the identifier-prefix check
AID_BAD == <<"E", "B", "a", "d">>

EXAMPLE_COM == <<"e", "x", "a", "m", "p", "l", "e", ".", "c", "o", "m">>
PORT == <<"8", "0", "8", "0">>
PATH_ONE == <<"p", "a", "t", "h">>
PATH_TWO == <<"a", ":", "b">>
PATH_DIGITS == <<"2", "0", "2", "4">>
QUERY_VERSION == <<"?", "v", "e", "r", "s", "i", "o", "n", "I", "d", "=", "1">>
QUERY_TIME == <<"?", "v", "e", "r", "s", "i", "o", "n", "T", "i", "m", "e", "=", "0", "0", ":", "0", "0", "Z">>
DID_WEBS_COLON_UPPER == <<"D", "I", "D", ":", "W", "E", "B", "S", ":">>

WebSchemes == {DID_WEBS_COLON, DID_WEB_COLON, DID_WEBS_COLON_UPPER}
Ports == {None, PORT}
Paths == {None, PATH_ONE, PATH_TWO, PATH_DIGITS}
Aids == {AID_A, AID_BAD}
Queries == {None, QUERY_VERSION, QUERY_TIME}

\* legacy: the port, when there is one, is written after a plain ':'
WebParts ==
    [scheme : WebSchemes, domain : {EXAMPLE_COM}, port : Ports, path : Paths,
     aid : Aids, query : Queries, legacy : BOOLEAN]

KeriParts ==
    [scheme : {DID_KERI_COLON}, domain : {None}, port : {None}, path : {None},
     aid : Aids, query : {None, QUERY_VERSION}, legacy : {FALSE}]

DidParts == WebParts \cup KeriParts

Opt(prefix, x) == IF x = None THEN <<>> ELSE prefix \o x

\* the DID string a caller writes from the components
Serialize(p) ==
    p.scheme \o Opt(<<>>, p.domain)
    \o Opt(IF p.legacy THEN <<":">> ELSE PCT_3A_UPPER, p.port)
    \o Opt(<<":">>, p.path)
    \o (IF p.scheme = DID_KERI_COLON THEN p.aid ELSE <<":">> \o p.aid)
    \o Opt(<<>>, p.query)

\* 'did:webs:<domain>[%3A<port>][:<path>]:<identifier>[<query>]'
Canonical(p) == Serialize([p EXCEPT !.scheme = DID_WEBS_COLON, !.legacy = FALSE])

-----------------------------------------------------------------------------
(* The DID session: a caller holds one DID string and calls the parser and *)
(* normaliser functions on it.                                             *)

IdleDid == did = <<>> /\ parts = Idle /\ out = Idle /\ prev = Idle /\ op = "none" /\ n = 0
IdleVM == vmIn = Idle /\ vmOut = Idle
IdleDoc == hby = Idle /\ docOut = Idle
IdleConv == heap = Idle /\ conv = Idle

InitDid ==
    /\ parts \in DidParts
    /\ did = Serialize(parts)
    /\ out = Idle
    /\ prev = Idle
    /\ op = "none"
    /\ n = 0
    /\ IdleVM /\ IdleDoc /\ IdleConv

\* strip_query(did), then strip_query of what it returned
StripQuery ==
    /\ op \in {"none", "strip_query"}
    /\ n < MaxApply
    /\ (IF n = 0 THEN TRUE ELSE out.ok)
    /\ out' = strip_query(IF n = 0 THEN did ELSE out.val)
    /\ prev' = out
    /\ op' = "strip_query"
    /\ n' = n + 1
    /\ UNCHANGED <<did, parts, vmVars, docVars, convVars>>

ReEncodeInvalidDid ==
    /\ op = "none"
    /\ out' = re_encode_invalid_did(did)
    /\ op' = "re_encode_invalid_did"
    /\ UNCHANGED <<did, parts, prev, n, vmVars, docVars, convVars>>

ParseDidWebs ==
    /\ op = "none"
    /\ out' = parse_did_webs(did)
    /\ op' = "parse_did_webs"
    /\ UNCHANGED <<did, parts, prev, n, vmVars, docVars, convVars>>

ParseDidKeri ==
    /\ op = "none"
    /\ out' = parse_did_keri(did)
    /\ op' = "parse_did_keri"
    /\ UNCHANGED <<did, parts, prev, n, vmVars, docVars, convVars>>

Next == StripQuery \/ ReEncodeInvalidDid \/ ParseDidWebs \/ ParseDidKeri

Spec == InitDid /\ [][Next]_vars

-----------------------------------------------------------------------------
(* Properties of the DID session *)

\* C1: strip_query is idempotent: whenever strip_query(d) succeeds, applying
\* strip_query to its result succeeds too and returns the same string.
C1_StripQueryIdempotent ==
    (op = "strip_query" /\ n >= 2) => (out.ok /\ out.val = prev.val)

\* C2: re_encode_invalid_did applied to the legacy did:webs string of any
\* (domain, port, path, identifier, query) with a valid identifier returns the
\* canonical string of the same components.
C2_ReEncodeRoundTrip ==
    (/\ op = "re_encode_invalid_did"
     /\ parts.scheme = DID_WEBS_COLON
     /\ parts.legacy
     /\ ValidPrefix(parts.aid))
    => out = Ok(Canonical(parts))

-----------------------------------------------------------------------------
(* Verification methods *)

\* most keys of a key state, and most weights of a weighted threshold clause
MaxKeys == 3
MaxWeights == 3

\* A Python int has no fixed width.  The magnitude of one is written as the
\* sequence of its digits in base 2^LimbBits, least significant digit first and
\* no zero digit last (zero is the empty sequence); an int that can be negative
\* is [neg |-> its sign, mag |-> its magnitude].
LimbBits == 13

\* the bits of the significand of a Python float (an IEEE 754 binary64)
MantissaBits == 53

RECURSIVE Mag(_)
Mag(v) == IF v = 0 THEN <<>> ELSE <<v % (2^LimbBits)>> \o Mag(v \div (2^LimbBits))

\* the digits without zero digits at the most significant end
Trim(x) ==
    SubSeq(x, 1, CHOOSE len \in 0..Len(x) :
                     /\ \A i \in (len + 1)..Len(x) : x[i] = 0
                     /\ len = 0 \/ x[len] # 0)

\* a < b
Less(a, b) ==
    \/ Len(a) < Len(b)
    \/ /\ Len(a) = Len(b)
       /\ \E i \in 1..Len(a) : a[i] < b[i] /\ \A j \in (i + 1)..Len(a) : a[j] = b[j]

\* a + b
Plus(a, b) ==
    LET Digit(x, i) == IF i <= Len(x) THEN x[i] ELSE 0
        RECURSIVE Carry(_, _), Emit(_, _)
        Carry(i, c) ==
            IF i > Len(a) /\ i > Len(b) THEN Mag(c)
            ELSE Emit(i, Digit(a, i) + Digit(b, i) + c)
        Emit(i, s) == <<s % (2^LimbBits)>> \o Carry(i + 1, s \div (2^LimbBits)) IN
    Carry(1, 0)

\* a * b
Times(a, b) ==
    LET RECURSIVE Column(_, _), Carry(_, _), Emit(_, _)
        \* the sum of the products a[j] * b[k + 1 - j], j from i up
        Column(k, i) ==
            IF i > k \/ i > Len(a) THEN 0
            ELSE (IF k + 1 - i <= Len(b) THEN a[i] * b[k + 1 - i] ELSE 0) + Column(k, i + 1)
        Carry(k, c) ==
            IF k > Len(a) + Len(b) THEN <<>> ELSE Emit(k, Column(k, 1) + c)
        Emit(k, s) == <<s % (2^LimbBits)>> \o Carry(k + 1, s \div (2^LimbBits)) IN
    Trim(Carry(1, 0))

\* a // b and a % b for b > 0: long division, most significant digit first
DivMod(a, b) ==
    LET Minus(x, y) ==
            LET RECURSIVE Borrow(_, _), Emit(_, _)
                Borrow(i, c) ==
                    IF i > Len(x) THEN <<>>
                    ELSE Emit(i, x[i] - (IF i <= Len(y) THEN y[i] ELSE 0) - c)
                Emit(i, s) == <<(s + 2^LimbBits) % (2^LimbBits)>>
                              \o Borrow(i + 1, IF s < 0 THEN 1 ELSE 0) IN
            Trim(Borrow(1, 0))
        \* the value of a magnitude of at most two digits
        Small(x) == IF x = <<>> THEN 0
                    ELSE IF Len(x) = 1 THEN x[1] ELSE x[1] + x[2] * (2^LimbBits)
        RECURSIVE Find(_, _, _), Probe(_, _, _, _), Go(_, _, _), Step(_, _, _), Take(_, _, _, _)
        \* the greatest digit d in lo..hi with d * b <= cur
        Find(cur, lo, hi) ==
            IF lo = hi THEN lo ELSE Probe(cur, lo, hi, (lo + hi + 1) \div 2)
        Probe(cur, lo, hi, mid) ==
            IF Less(cur, Times(b, Mag(mid))) THEN Find(cur, lo, mid - 1)
            ELSE Find(cur, mid, hi)
        Go(i, rem, q) ==
            IF i = 0 THEN [q |-> Trim(q), r |-> rem]
            ELSE Step(i, Trim(<<a[i]>> \o rem), q)
        Step(i, cur, q) ==
            IF Less(cur, b) THEN Go(i - 1, cur, <<0>> \o q)
            ELSE IF Len(cur) <= 2 THEN Take(i, cur, Small(cur) \div Small(b), q)
            ELSE Take(i, cur, Find(cur, 1, 2^LimbBits - 1), q)
        Take(i, cur, d, q) == Go(i - 1, Minus(cur, Times(b, Mag(d))), <<d>> \o q) IN
    Go(Len(a), <<>>, <<>>)

RECURSIVE Gcd(_, _)
Gcd(a, b) == IF b = <<>> THEN a ELSE Gcd(b, DivMod(a, b).r)

\* math.lcm of the elements of a list; math.lcm() of nothing is 1
RECURSIVE LcmOf(_)
LcmOf(ds) ==
    IF ds = <<>> THEN Mag(1)
    ELSE LET Lcm(x, y) == DivMod(Times(x, y), Gcd(x, y)).q IN
         Lcm(Head(ds), LcmOf(Tail(ds)))

\* int.bit_length()
BitLength(a) ==
    IF a = <<>> THEN 0
    ELSE LimbBits * (Len(a) - 1)
         + CHOOSE k \in 1..LimbBits : 2^(k - 1) <= a[Len(a)] /\ a[Len(a)] < 2^k

\* 2 ** s
TwoTo(s) ==
    [i \in 1..(s \div LimbBits + 1) |-> IF i = s \div LimbBits + 1 THEN 2^(s % LimbBits) ELSE 0]

\* a / b for ints a >= 0 and b > 0: the float nearest to the quotient, a tie
\* going to the even significand.  The float is [m, e], of value m * 2^e with
\* 2^(MantissaBits - 1) <= m < 2^MantissaBits; zero is [<<>>, 0].  (The
\* quotients of the model stay inside the range of the normal floats.)
TrueDiv(a, b) ==
    LET Scaled(x, s) == IF s > 0 THEN Times(x, TwoTo(s)) ELSE x
        \* 2^(w - 1) <= a / b < 2^w
        Width(w) == IF Less(Scaled(a, -w), Scaled(b, w)) THEN w ELSE w + 1
        Mantissa(q, twice, d) ==
            IF Less(d, twice) \/ (twice = d /\ q[1] % 2 = 1) THEN Plus(q, Mag(1)) ELSE q
        Float(m, e) ==
            IF m = TwoTo(MantissaBits) THEN [m |-> TwoTo(MantissaBits - 1), e |-> e + 1]
            ELSE [m |-> m, e |-> e]
        Rounded(dm, d, e) == Float(Mantissa(dm.q, Plus(dm.r, dm.r), d), e)
        At(e) == Rounded(DivMod(Scaled(a, -e), Scaled(b, e)), Scaled(b, e), e) IN
    IF a = <<>> THEN [m |-> <<>>, e |-> 0]
    ELSE At(Width(BitLength(a) - BitLength(b)) - MantissaBits)

\* int(a / b) for b > 0: true division, then truncation toward zero
IntOfQuotient(a, b) ==
    LET Digit(x, i) == IF i <= Len(x) THEN x[i] ELSE 0
        \* x // 2^(LimbBits * k + t)
        Shifted(x, k, t) ==
            Trim([i \in 1..(Len(x) - k) |->
                     Digit(x, i + k) \div 2^t + (Digit(x, i + k + 1) % 2^t) * 2^(LimbBits - t)])
        Truncated(x) ==
            IF x.e >= 0 THEN Times(x.m, TwoTo(x.e))
            ELSE Shifted(x.m, (-x.e) \div LimbBits, (-x.e) % LimbBits)
        Signed(mag) == [neg |-> a.neg /\ mag # <<>>, mag |-> mag] IN
    Signed(Truncated(TrueDiv(a.mag, b)))

\* a fractions.Fraction: reduced, with a positive denominator
Frac(neg, a, b) == [num |-> [neg |-> neg, mag |-> a], den |-> b]

\* generate_json_web_key_vm(pubkey, did, kid, x).  publicKeyJwk.x, the base64url
\* text of the raw key, is not carried: no operation reads it.
generate_json_web_key_vm(pubkey, d, kid) ==
    LET Method(c) ==
            IF ~c.ok THEN c
            ELSE Ok([id |-> <<"#">> \o pubkey, type |-> "JsonWebKey", controller |-> c.val,
                     publicKeyJwk |-> [kid |-> kid, kty |-> "OKP", crv |-> "Ed25519"]]) IN
    Method(strip_query(d))

generate_threshold_proof2022(aid, d, thold, conditions) ==
    LET Method(c) ==
            IF ~c.ok THEN c
            ELSE Ok([id |-> <<"#">> \o aid, type |-> "ConditionalProof2022", controller |-> c.val,
                     threshold |-> thold, conditionThreshold |-> conditions]) IN
    Method(strip_query(d))

generate_weighted_threshold_proof2022(aid, d, threshold, conditions) ==
    LET Method(c) ==
            IF ~c.ok THEN c
            ELSE Ok([id |-> <<"#">> \o aid, type |-> "ConditionalProof2022", controller |-> c.val,
                     threshold |-> threshold, conditionWeightedThreshold |-> conditions]) IN
    Method(strip_query(d))

\* the product of the denominators: a common denominator, not the least one
CommonDenominatorProduct(clause) ==
    IF clause = <<>> THEN Mag(1)
    ELSE LET RECURSIVE Prod(_)
             Prod(s) == IF s = <<>> THEN Mag(1) ELSE Times(Head(s).den, Prod(Tail(s))) IN
         Prod(clause)

\* lcd = int(math.lcm(*[fr.denominator for fr in thold[0]]))
CommonDenominator(clause) == LcmOf([i \in 1..Len(clause) |-> clause[i].den])

\* thold is the list of clauses; only its first clause is read
generate_weighted_threshold_proof(thold, verfers, vms, d, aid) ==
    IF thold = <<>> THEN Err("IndexError")
    ELSE LET \* fr.numerator * lcd
             Product(num, lcd) == [neg |-> num.neg, mag |-> Times(num.mag, lcd)]
             Numerators(clause, lcd) ==
                 [i \in 1..Len(clause) |->
                     IntOfQuotient(Product(clause[i].num, lcd), clause[i].den)]
             Proof(threshold, numerators) ==
                 IF Len(numerators) < Len(verfers) THEN Err("IndexError")
                 ELSE generate_weighted_threshold_proof2022(aid, d, threshold,
                          [i \in 1..Len(verfers) |->
                              [condition |-> vms[i].id, weight |-> numerators[i]]])
             WithLcd(lcd) == Proof(TrueDiv(lcd, Mag(2)), Numerators(thold[1], lcd)) IN
         WithLcd(CommonDenominator(thold[1]))

\* one JsonWebKey VM per key, last key first
KeyVMsReversed(verfers, d) ==
    LET Loop(c) ==
            IF verfers # <<>> /\ ~c.ok THEN c
            ELSE Ok([i \in 1..Len(verfers) |->
                        generate_json_web_key_vm(verfers[Len(verfers) + 1 - i], d,
                                                 verfers[Len(verfers) + 1 - i]).val]) IN
    Loop(strip_query(d))

\* the loop over the verfers: one JsonWebKey VM per key, in key order; the
\* first key's VM fails where strip_query fails
KeyVMs(verfers, d) ==
    LET Loop(c) ==
            IF verfers # <<>> /\ ~c.ok THEN c
            ELSE Ok([i \in 1..Len(verfers) |->
                        generate_json_web_key_vm(verfers[i], d, verfers[i]).val]) IN
    Loop(strip_query(d))

\* thold is [kind |-> "int", n |-> ...] or [kind |-> "list", clauses |-> ...]
generate_verification_methods(verfers, thold, d, aid) ==
    LET Appended(vms, p) == IF p.ok THEN Ok(Append(vms, p.val)) ELSE p
        Methods(keys) ==
            IF ~keys.ok THEN keys
            ELSE IF thold.kind = "int"
                 THEN IF thold.n > 1
                      THEN Appended(keys.val,
                               generate_threshold_proof2022(aid, d, thold.n,
                                   [i \in 1..Len(keys.val) |-> keys.val[i].id]))
                      ELSE keys
            ELSE IF thold.kind = "list"
                 THEN Appended(keys.val,
                          generate_weighted_threshold_proof(thold.clauses, verfers,
                                                            keys.val, d, aid))
            ELSE keys IN
    Methods(KeyVMs(verfers, d))

-----------------------------------------------------------------------------
(* The VM session: generate_verification_methods is called on a key list,  *)
(* a threshold, a DID and the controlling AID.                             *)

KEY_1 == <<"D", "H", "r", "0", "-", "I", "-", "m", "M", "N", "7", "h", "6", "c", "L", "M", "O", "T", "R", "J", "k", "k", "f", "P", "u", "M", "d", "0", "v", "g", "Q", "P", "r", "O", "k", "4", "Y", "3", "e", "d", "a", "H", "j", "r">>
KEY_2 == <<"D", "A", "-", "v", "W", "9", "y", "n", "S", "k", "v", "O", "W", "v", "5", "e", "7", "i", "d", "t", "i", "k", "L", "A", "N", "d", "S", "6", "p", "G", "O", "2", "I", "H", "J", "y", "7", "v", "0", "r", "y", "p", "v", "E">>
KEY_3 == <<"D", "L", "W", "J", "r", "s", "K", "I", "H", "r", "r", "n", "1", "Q", "1", "j", "y", "2", "o", "E", "i", "8", "B", "m", "v", "6", "a", "E", "v", "w", "u", "y", "I", "q", "g", "n", "g", "w", "f", "6", "U", "2", "n", "d">>
KEY_4 == <<"D", "O", "I", "F", "5", "B", "g", "L", "U", "J", "N", "D", "F", "x", "H", "Q", "F", "B", "F", "h", "W", "m", "V", "R", "E", "J", "z", "H", "_", "-", "D", "2", "I", "g", "1", "i", "Q", "8", "p", "B", "m", "6", "N", "9">>
AllKeys == <<KEY_1, KEY_2, KEY_3, KEY_4>>

WebParts0 == [scheme |-> DID_WEBS_COLON, domain |-> EXAMPLE_COM, port |-> None,
              path |-> None, aid |-> AID_A, query |-> None, legacy |-> FALSE]

VMDids ==
    { Serialize(WebParts0),
      Serialize([WebParts0 EXCEPT !.port = PORT, !.path = PATH_ONE, !.query = QUERY_VERSION]),
      Serialize([WebParts0 EXCEPT !.scheme = DID_WEBS_COLON_UPPER, !.query = QUERY_VERSION]),
      Serialize([WebParts0 EXCEPT !.aid = AID_BAD]),
      DID_KERI_COLON \o AID_A }

Weights == {Frac(FALSE, Mag(1), Mag(2)), Frac(FALSE, Mag(1), Mag(3)),
            Frac(FALSE, Mag(2), Mag(3)), Frac(FALSE, Mag(0), Mag(1)),
            Frac(TRUE, Mag(1), Mag(2))}

\* clauses of small weights, and two clauses whose denominators need more bits
\* than a float holds: 1/2, 1/2, 1/(2^53 + 1), and (2^53 + 1)/(2^54 + 1),
\* 2^53/(2^54 + 1), which sum to one
Clauses ==
    UNION {[1..len -> Weights] : len \in 0..MaxWeights}
    \cup { << Frac(FALSE, Mag(1), Mag(2)), Frac(FALSE, Mag(1), Mag(2)),
              Frac(FALSE, Mag(1), Plus(TwoTo(MantissaBits), Mag(1))) >>,
           << Frac(FALSE, Plus(TwoTo(MantissaBits), Mag(1)), Plus(TwoTo(MantissaBits + 1), Mag(1))),
              Frac(FALSE, TwoTo(MantissaBits), Plus(TwoTo(MantissaBits + 1), Mag(1))) >> }

Tholds ==
    [kind : {"int"}, n : 1..MaxKeys]
    \cup [kind : {"list"}, clauses : {<<>>} \cup {<<c>> : c \in Clauses}
                                      \cup {<<c, <<Frac(FALSE, Mag(1), Mag(1))>> >> : c \in Clauses}]

InitVM ==
    /\ vmIn \in [verfers : {SubSeq(AllKeys, 1, k) : k \in 1..MaxKeys},
                 thold : Tholds, did : VMDids, aid : {AID_A}]
    \* an integer threshold never exceeds the number of keys
    /\ vmIn.thold.kind = "int" => vmIn.thold.n <= Len(vmIn.verfers)
    /\ vmOut = Idle
    /\ IdleDid /\ IdleDoc /\ IdleConv

GenerateVerificationMethods ==
    /\ vmOut = Idle
    /\ vmOut' = generate_verification_methods(vmIn.verfers, vmIn.thold, vmIn.did, vmIn.aid)
    /\ UNCHANGED <<vmIn, didVars, docVars, convVars>>

SpecVM == InitVM /\ [][GenerateVerificationMethods]_vars

-----------------------------------------------------------------------------
(* Properties of the VM session *)

Weighted == vmIn.thold.kind = "list"
Returned == vmOut # Idle

\* the first clause of a weighted threshold, the one the code reads
FirstClause == vmIn.thold.clauses[1]

\* the ConditionalProof2022 VM of a returned list: its last element
ProofVM == vmOut.val[Len(vmOut.val)]

RECURSIVE SumSeq(_)
SumSeq(s) == IF s = <<>> THEN <<>> ELSE Plus(Head(s), SumSeq(Tail(s)))

RECURSIVE ProdSeq(_)
ProdSeq(s) == IF s = <<>> THEN Mag(1) ELSE Times(Head(s), ProdSeq(Tail(s)))

Denominators(clause) == [i \in 1..Len(clause) |-> clause[i].den]

Divides(d, m) == DivMod(m, d).r = <<>>

LessEq(a, b) == ~Less(b, a)

RECURSIVE GcdSeq(_)
GcdSeq(s) == IF s = <<>> THEN <<>> ELSE Gcd(Head(s), GcdSeq(Tail(s)))

\* m is the least positive integer every denominator divides: a common
\* multiple whose quotients by the denominators have no common factor
IsLeastCommonMultiple(m, ds) ==
    /\ m # <<>>
    /\ \A i \in 1..Len(ds) : Divides(ds[i], m)
    /\ ds # <<>> => GcdSeq([i \in 1..Len(ds) |-> DivMod(m, ds[i]).q]) = Mag(1)

\* the least common multiple of the denominators of the first clause
Lcd == LcmOf(Denominators(FirstClause))

EmittedWeights ==
    [i \in 1..Len(ProofVM.conditionWeightedThreshold) |->
        ProofVM.conditionWeightedThreshold[i].weight]

EmittedMagnitudes == [i \in 1..Len(EmittedWeights) |-> EmittedWeights[i].mag]

\* weight_i * lcd as the quotient and remainder of numerator_i * lcd by
\* denominator_i (magnitudes)
ExactWeight(i, lcd) == DivMod(Times(FirstClause[i].num.mag, lcd), FirstClause[i].den)

\* a float holds the integer exactly
FitsFloat(q) == BitLength(q) <= MantissaBits

\* w is the float nearest to the integer q: q itself when a float holds it,
\* else the nearest multiple of 2^s, s the bits q has beyond a float's, the
\* even multiple when q lies midway between two
NearestFloat(w, q) ==
    IF FitsFloat(q) THEN w = q
    ELSE LET Nearest(step) ==
                 /\ Divides(step, w)
                 /\ LessEq(Plus(w, w), Plus(Plus(q, q), step))
                 /\ LessEq(Plus(q, q), Plus(Plus(w, w), step))
                 /\ (Plus(w, w) = Plus(Plus(q, q), step) \/ Plus(q, q) = Plus(Plus(w, w), step))
                        => Divides(Plus(step, step), w) IN
         Nearest(TwoTo(BitLength(q) - MantissaBits))

PositiveWeight(i) == ~FirstClause[i].num.neg /\ FirstClause[i].num.mag # <<>>

\* the sum of the keys' fractional weights, times the product prod of the
\* denominators
TotalWeight(prod) ==
    SumSeq([i \in 1..Len(vmIn.verfers) |->
               Times(FirstClause[i].num.mag, DivMod(prod, FirstClause[i].den).q)])

\* one positive weight per key, and the weights can reach 1 together (a
\* threshold some set of signers satisfies)
WellFormedWeights ==
    /\ Len(FirstClause) = Len(vmIn.verfers)
    /\ \A i \in 1..Len(FirstClause) : PositiveWeight(i)
    /\ LessEq(ProdSeq(Denominators(FirstClause)),
              TotalWeight(ProdSeq(Denominators(FirstClause))))

\* C4 as stated: the integer weights emitted for a weighted threshold sum to
\* exactly lcd, the least common multiple of the weight denominators (checked
\* on the well-formed thresholds: one positive weight per key).
C4_WeightsSumToLcd ==
    (Returned /\ Weighted /\ vmOut.ok /\ WellFormedWeights)
    => /\ IsLeastCommonMultiple(Lcd, Denominators(FirstClause))
       /\ SumSeq(EmittedMagnitudes) = Lcd

\* C4 as amended: with lcd the least common multiple of the weight
\* denominators, the weight emitted for key i is the float nearest to
\* weight_i * lcd, taken as an integer: exactly weight_i * lcd when that is
\* below 2^53, rounded to 53 significant bits otherwise.  When every key's
\* weight is positive and none is rounded, the emitted weights sum to lcd
\* times the sum of the keys' fractional weights (stated with both sides
\* multiplied by the product of the denominators), and the sum is lcd exactly
\* when those fractional weights sum to one.
C4_WeightsAreNearestFloats ==
    (Returned /\ Weighted /\ vmOut.ok)
    => LET k == Len(vmIn.verfers)
           Rounded(i, exact) ==
               /\ exact.r = <<>>
               /\ NearestFloat(EmittedWeights[i].mag, exact.q)
               /\ EmittedWeights[i].neg
                      = (FirstClause[i].num.neg /\ EmittedWeights[i].mag # <<>>)
           Sums(lcd, prod, sum, total) ==
               /\ Times(sum, prod) = Times(lcd, total)
               /\ (sum = lcd) <=> (total = prod)
           Holds(lcd, prod) ==
               /\ IsLeastCommonMultiple(lcd, Denominators(FirstClause))
               /\ Len(EmittedWeights) = k
               /\ \A i \in 1..k : Rounded(i, ExactWeight(i, lcd))
               /\ (\A i \in 1..k : PositiveWeight(i) /\ FitsFloat(ExactWeight(i, lcd).q))
                      => Sums(lcd, prod, SumSeq(EmittedMagnitudes), TotalWeight(prod)) IN
       Holds(Lcd, ProdSeq(Denominators(FirstClause)))

\* weights 1/2, 1/2, 1/(2^53 + 1) of three keys: lcd is 2^54 + 2, and the
\* first two weights, 2^53 + 1 exactly, are emitted as 2^53
C4_Witness ==
    /\ Returned /\ Weighted /\ vmOut.ok
    /\ Len(vmIn.verfers) = 3
    /\ Denominators(FirstClause) = <<Mag(2), Mag(2), Plus(TwoTo(MantissaBits), Mag(1))>>
    /\ ExactWeight(1, Lcd).q = Plus(TwoTo(MantissaBits), Mag(1))
    /\ EmittedMagnitudes = <<TwoTo(MantissaBits), TwoTo(MantissaBits), Mag(2)>>

KeyIds == [i \in 1..Len(vmIn.verfers) |-> <<"#">> \o vmIn.verfers[i]]

\* C5: for k keys and an integer threshold n the result is the k JsonWebKey
\* VMs in key order (id = '#' + key identifier), followed, when n > 1, by one
\* ConditionalProof2022 VM with threshold n whose conditionThreshold lists the
\* k key VM ids in the same order; when n = 1 nothing is appended.
C5_SimpleThresholdVMs ==
    (Returned /\ vmIn.thold.kind = "int" /\ strip_query(vmIn.did).ok)
    => /\ vmOut.ok
       /\ LET k == Len(vmIn.verfers)
              th == vmIn.thold.n IN
          /\ Len(vmOut.val) = IF th > 1 THEN k + 1 ELSE k
          /\ \A i \in 1..k : /\ vmOut.val[i].type = "JsonWebKey"
                             /\ vmOut.val[i].id = KeyIds[i]
          /\ th > 1 => /\ ProofVM.type = "ConditionalProof2022"
                       /\ ProofVM.threshold = th
                       /\ ProofVM.conditionThreshold = KeyIds

\* 3 keys and threshold 2: 3 JsonWebKey VMs and 1 ConditionalProof2022 VM
C5_Witness ==
    /\ Returned /\ vmIn.thold = [kind |-> "int", n |-> 2]
    /\ Len(vmIn.verfers) = 3
    /\ vmOut.ok /\ Len(vmOut.val) = 4
    /\ ProofVM.type = "ConditionalProof2022"

\* the DID parser accepts the string
ParserAccepts(d) == parse_did_webs(d).ok \/ parse_did_keri(d).ok

HasQuery(d) == \E i \in 1..Len(d) : d[i] = "?"

\* C6: every verification method returned (key VMs and threshold VM) has a
\* controller without a query component, for every DID the parser accepts,
\* whatever the letter case of its scheme segment.
C6_ControllerHasNoQuery ==
    (Returned /\ vmOut.ok /\ ParserAccepts(vmIn.did))
    => \A i \in 1..Len(vmOut.val) : ~HasQuery(vmOut.val[i].controller)

\* C9: for a weighted threshold the call fails, returning no verification
\* methods, whenever the number of weights differs from the number of keys or
\* a weight is zero or negative.
C9_InvalidPolicyFails ==
    (/\ Returned /\ Weighted /\ vmIn.thold.clauses # <<>>
     /\ \/ Len(FirstClause) # Len(vmIn.verfers)
        \/ \E i \in 1..Len(FirstClause) : ~PositiveWeight(i))
    => ~vmOut.ok

-----------------------------------------------------------------------------
(* The Habery: local identifiers (habs), key states (kevers) and the       *)
(* credential registry (Regery).  hby is a record                          *)
(*   habs   : the set of local identifier prefixes                         *)
(*   kevers : a function from the known prefixes to their key state        *)
(*   reger  : a function from credential SAIDs to the credential's status  *)
(*   ends   : the role and witness endpoints of each local identifier      *)
(*   locs   : the location records of each witness                        *)
(* A credential's SAID is the digest of its content, so the content of     *)
(* each SAID is fixed (Credentials) and only its status changes: absent,   *)
(* then 'iss' or 'bis', then 'rev' or 'brv'.  The registry indexes         *)
(* (issus, schms) enumerate SAIDs in SAID order, here the order 1, 2, ...  *)

\* most credentials the registry holds at once
MaxIssued == 3

DES_ALIASES_SCHEMA == AID_B
OTHER_SCHEMA == <<"E", "M", "Q", "W", "E", "c", "C", "n", "V", "R", "k", "1", "h", "a", "t", "U", "Y", "D", "S", "Z", "L", "f", "9", "o", "K", "w", "v", "K", "v", "a", "Y", "T", "q", "d", "Q", "v", "8", "Z", "c", "U", "r", "p", "e", "_">>
AID_C == <<"E", "I", "a", "G", "M", "M", "W", "J", "F", "P", "m", "t", "X", "z", "n", "Y", "1", "I", "I", "i", "K", "D", "I", "r", "g", "-", "v", "I", "y", "g", "e", "6", "m", "B", "l", "2", "Q", "V", "8", "d", "D", "j", "I", "3">>
WITNESS_1 == <<"B", "B", "i", "l", "c", "4", "-", "L", "3", "t", "F", "U", "n", "f", "M", "_", "w", "J", "r", "4", "S", "4", "O", "J", "a", "n", "A", "v", "_", "V", "m", "F", "7", "d", "J", "N", "N", "6", "v", "K", "f", "1", "h", "a">>

WEBS_A == Serialize(WebParts0)
WEB_A == Serialize([WebParts0 EXCEPT !.scheme = DID_WEB_COLON])
WEBS_A_PORT == Serialize([WebParts0 EXCEPT !.port = PORT])
KERI_A == DID_KERI_COLON \o AID_A

\* sad.i (issuer), sad.s (schema), sad.a.i (issuee, None when self-attested)
\* and sad.a.ids of each credential, by SAID
Credentials ==
    << [i |-> AID_A, s |-> DES_ALIASES_SCHEMA, issuee |-> None, ids |-> <<WEBS_A, WEB_A>>],
       [i |-> AID_A, s |-> DES_ALIASES_SCHEMA, issuee |-> None, ids |-> <<WEBS_A_PORT, WEBS_A>>],
       [i |-> AID_B, s |-> DES_ALIASES_SCHEMA, issuee |-> None, ids |-> <<KERI_A>>],
       [i |-> AID_A, s |-> OTHER_SCHEMA, issuee |-> None, ids |-> <<WEB_A>>],
       [i |-> AID_A, s |-> DES_ALIASES_SCHEMA, issuee |-> AID_B, ids |-> <<WEBS_A_PORT>>],
       [i |-> AID_A, s |-> DES_ALIASES_SCHEMA, issuee |-> None, ids |-> <<KERI_A, WEBS_A>>] >>

Saids == 1..Len(Credentials)

Absent == "absent"

\* the SAIDs of a set, in SAID order
RECURSIVE SaidsInOrder(_, _)
SaidsInOrder(S, from) ==
    IF from > Len(Credentials) THEN <<>>
    ELSE (IF from \in S THEN <<from>> ELSE <<>>) \o SaidsInOrder(S, from + 1)

\* rgy.reger.issus.get(keys=aid): SAIDs of the credentials issued by aid
Issus(h, aid) ==
    SaidsInOrder({s \in Saids : h.reger[s] # Absent /\ Credentials[s].i = aid}, 1)

\* rgy.reger.schms.get(keys=schema): SAIDs of the credentials of the schema
Schms(h, schema) ==
    SaidsInOrder({s \in Saids : h.reger[s] # Absent /\ Credentials[s].s = schema}, 1)

InSeq(x, s) == \E k \in 1..Len(s) : s[k] = x

\* rgy.reger.cloneCreds(saids, db): each credential with its current status
CloneCreds(h, saids) ==
    [k \in 1..Len(saids) |->
        [sad |-> [i |-> Credentials[saids[k]].i, s |-> Credentials[saids[k]].s,
                  a |-> [ids |-> Credentials[saids[k]].ids]],
         status |-> [et |-> h.reger[saids[k]]]]]

\* itertools.chain.from_iterable
RECURSIVE Flatten(_)
Flatten(ss) == IF ss = <<>> THEN <<>> ELSE Head(ss) \o Flatten(Tail(ss))

\* the status check with the test of the event type left out
IsIssuedUnchecked(cred) == TRUE

\* status['et'] == 'iss' or status['et'] == 'bis'
IsIssued(cred) == cred.status.et = "iss" \/ cred.status.et = "bis"

designated_aliases(h, aid, schema) ==
    IF aid \in h.habs
    THEN LET saids == SelectSeq(Issus(h, aid), LAMBDA s : InSeq(s, Schms(h, schema)))
             creds == CloneCreds(h, saids)
             da_ids == [k \in 1..Len(creds) |->
                           IF IsIssued(creds[k]) THEN creds[k].sad.a.ids ELSE <<>>] IN
         Flatten(da_ids)
    ELSE <<>>

NumIssued(h) == Cardinality({s \in Saids : h.reger[s] # Absent})

\* a credential is issued into the registry (backed: by a registry with backers)
Issue(s, backed) ==
    /\ docOut = Idle
    /\ hby.reger[s] = Absent
    /\ NumIssued(hby) < MaxIssued
    /\ hby' = [hby EXCEPT !.reger[s] = IF backed THEN "bis" ELSE "iss"]
    /\ UNCHANGED <<docOut, didVars, vmVars, convVars>>

\* the issuer revokes a credential
Revoke(s) ==
    /\ docOut = Idle
    /\ hby.reger[s] \in {"iss", "bis"}
    /\ hby' = [hby EXCEPT !.reger[s] = IF hby.reger[s] = "bis" THEN "brv" ELSE "rev"]
    /\ UNCHANGED <<docOut, didVars, vmVars, convVars>>

DesignatedAliases(aid) ==
    /\ docOut = Idle
    /\ docOut' = [call |-> "designated_aliases", aid |-> aid,
                  ret |-> designated_aliases(hby, aid, DES_ALIASES_SCHEMA)]
    /\ UNCHANGED <<hby, didVars, vmVars, convVars>>

\* the caller is done with the result
Release ==
    /\ docOut # Idle
    /\ docOut' = Idle
    /\ UNCHANGED <<hby, didVars, vmVars, convVars>>

SingleKey == [verfers |-> <<KEY_1>>, thold |-> [kind |-> "int", n |-> 1],
              wits |-> <<>>, sn |-> 0]
TwoOfThree == [verfers |-> <<KEY_1, KEY_2, KEY_3>>, thold |-> [kind |-> "int", n |-> 2],
               wits |-> <<WITNESS_1>>, sn |-> 12]
WeightedKeys == [verfers |-> <<KEY_1, KEY_2>>,
                 thold |-> [kind |-> "list", clauses |-> <<<<Frac(FALSE, Mag(1), Mag(2)), Frac(FALSE, Mag(1), Mag(2))>>>>],
                 wits |-> <<WITNESS_1>>, sn |-> 3]

ROLE_WITNESS == <<"w", "i", "t", "n", "e", "s", "s">>
ROLE_MAILBOX == <<"m", "a", "i", "l", "b", "o", "x">>

\* hab.fetchRoleUrls and hab.fetchWitnessUrls of the local identifier: by role,
\* by endpoint identifier, the url of each protocol
LocalEnds ==
    [roleUrls |-> << [role |-> ROLE_MAILBOX,
                      eids |-> << [eid |-> AID_C, urls |-> [http |-> "http://127.0.0.1:5632/"]] >>] >>,
     witnessUrls |-> << [role |-> ROLE_WITNESS,
                         eids |-> << [eid |-> WITNESS_1,
                                      urls |-> [http |-> "http://127.0.0.1:5642/",
                                                tcp |-> "tcp://127.0.0.1:5632/"]] >>] >>]

\* hby.db.locs of a witness: its location records
WitnessLocs == << [scheme |-> "http", url |-> "http://127.0.0.1:5642/"],
                  [scheme |-> "tcp", url |-> "tcp://127.0.0.1:5632/"] >>

\* AID_A is a local identifier; AID_B is known by its key state only
InitAlias ==
    /\ hby = [habs |-> {AID_A},
              kevers |-> (AID_A :> SingleKey @@ AID_B :> TwoOfThree),
              reger |-> [s \in Saids |-> Absent],
              ends |-> (AID_A :> LocalEnds),
              locs |-> (WITNESS_1 :> WitnessLocs)]
    /\ docOut = Idle
    /\ IdleDid /\ IdleVM /\ IdleConv

NextAlias ==
    \/ \E s \in Saids, backed \in BOOLEAN : Issue(s, backed)
    \/ \E s \in Saids : Revoke(s)
    \/ \E aid \in {AID_A, AID_B} : DesignatedAliases(aid)
    \/ Release

SpecAlias == InitAlias /\ [][NextAlias]_vars

-----------------------------------------------------------------------------
(* Properties of designated_aliases *)

AliasesReturned == docOut # Idle /\ docOut.call = "designated_aliases"

\* the credentials that match the lookup of aid: issued by aid under the
\* designated-aliases schema, with current status 'iss' or 'bis'
MatchesLookup(s, aid) ==
    /\ hby.reger[s] \in {"iss", "bis"}
    /\ Credentials[s].i = aid
    /\ Credentials[s].s = DES_ALIASES_SCHEMA

RECURSIVE ExpectedAliases(_, _)
ExpectedAliases(aid, from) ==
    IF from > Len(Credentials) THEN <<>>
    ELSE (IF MatchesLookup(from, aid) THEN Credentials[from].ids ELSE <<>>)
         \o ExpectedAliases(aid, from + 1)

\* C7 as stated: designated_aliases returns exactly the aliases of the
\* credentials issued by the identifier under the designated-aliases schema
\* whose status is 'iss' or 'bis', flattened in enumeration order without
\* de-duplication, and so nothing of a credential with another status.
C7_AliasesOfIssuedCredentials ==
    AliasesReturned => docOut.ret = ExpectedAliases(docOut.aid, 1)

\* C7 as amended: the above for an identifier that is a local identifier of
\* the habery; for any other identifier the result is empty.
C7_AliasesOfIssuedCredentialsOfLocal ==
    AliasesReturned =>
        docOut.ret = IF docOut.aid \in hby.habs
                     THEN ExpectedAliases(docOut.aid, 1) ELSE <<>>

\* credential 1 revoked, credentials 2 and 6 issued: the aliases of 2 and 6
\* are returned in that order, with the alias they share kept twice
C7_Witness ==
    /\ AliasesReturned /\ docOut.aid = AID_A
    /\ hby.reger[1] = "rev" /\ hby.reger[2] = "iss" /\ hby.reger[6] = "bis"
    /\ docOut.ret = <<WEBS_A_PORT, WEBS_A, KERI_A, WEBS_A>>

-----------------------------------------------------------------------------
(* generate_did_doc *)

\* f'{seq_no}': the decimal digits of a natural number
DigitChars == <<"0", "1", "2", "3", "4", "5", "6", "7", "8", "9">>

RECURSIVE DecStr(_)
DecStr(k) == IF k < 10 THEN <<DigitChars[k + 1]>>
             ELSE DecStr(k \div 10) \o <<DigitChars[(k % 10) + 1]>>

\* add_ends(ends).  ends is a multidict, here the sequence of its items
\* [role, eids] in insertion order, and each eids is one too, the sequence of
\* its items [eid, urls].  Iterating a multidict visits a key once per item
\* held under it; getall(key) is every value of the key and m[key] the first.
\* So the entries of a role are emitted once per item of that role.
AddEnds(ends) ==
    LET process_eid(eid, val, role) ==
            << [id |-> <<"#">> \o eid \o <<"/">> \o role, type |-> role,
                serviceEndpoint |-> val] >>
        First(eids, eid) ==
            eids[CHOOSE i \in 1..Len(eids) :
                    /\ eids[i].eid = eid
                    /\ \A k \in 1..(i - 1) : eids[k].eid # eid].urls
        process_eids(eids, role) ==
            Flatten([e \in 1..Len(eids) |->
                        process_eid(eids[e].eid, First(eids, eids[e].eid), role)])
        getall(role) == SelectSeq(ends, LAMBDA item : item.role = role)
        process_role(role) ==
            Flatten([v \in 1..Len(getall(role)) |-> process_eids(getall(role)[v].eids, role)]) IN
    Flatten([r \in 1..Len(ends) |-> process_role(ends[r].role)])

gen_did_document(d, vms, service_endpoints, also_known_as) ==
    [id |-> d, verificationMethod |-> vms, service |-> service_endpoints,
     alsoKnownAs |-> also_known_as]

\* retrieved, the time of the call, is an input (now)
genDidResolutionResult(witness_list, seq_no, equivalent_ids, d, vms, serv_ends, aka_ids, now) ==
    [didDocument |-> gen_did_document(d, vms, serv_ends, aka_ids),
     didResolutionMetadata |-> [contentType |-> "application/did+json", retrieved |-> now],
     didDocumentMetadata |-> [witnesses |-> witness_list, versionId |-> DecStr(seq_no),
                              equivalentId |-> equivalent_ids]]

\* the identifier check of a did:web(s) DID
WebsIdentifierCheck(d, aid) ==
    IF StartsWith(d, DID_WEBS) \/ StartsWith(d, DID_WEB)
    THEN LET Compared(r) ==
                 IF ~r.ok THEN r
                 ELSE IF (d # <<>> /\ aid # <<>>) /\ r.val.aid # aid THEN Err("ValueError")
                 ELSE Ok(TRUE) IN
         Compared(parse_did_webs(d))
    ELSE Ok(TRUE)

\* the identifier check of a did:keri DID
KeriIdentifierCheck(d, aid) ==
    IF StartsWith(d, DID_KERI) /\ (d # <<>> /\ aid # <<>>) /\ ~EndsWith(d, aid)
    THEN Err("ValueError")
    ELSE Ok(TRUE)

WitnessList(h, kever) ==
    Flatten([w \in 1..Len(kever.wits) |->
        LET locs == IF kever.wits[w] \in DOMAIN h.locs THEN h.locs[kever.wits[w]] ELSE <<>> IN
        [l \in 1..Len(locs) |-> [idx |-> w - 1, scheme |-> locs[l].scheme, url |-> locs[l].url]]])

generate_did_doc(h, d, aid, meta, now) ==
    LET Document(kever, vms, witness_list, serv_ends, aka_ids) ==
            IF ~vms.ok THEN vms
            ELSE IF meta
                 THEN Ok(genDidResolutionResult(witness_list, kever.sn,
                             SelectSeq(aka_ids, LAMBDA s : StartsWith(s, DID_WEBS)), d,
                             vms.val, serv_ends, aka_ids, now))
                 ELSE Ok(gen_did_document(d, vms.val, serv_ends, aka_ids))
        Generated(kever) ==
            Document(kever,
                     generate_verification_methods(kever.verfers, kever.thold, d, aid),
                     WitnessList(h, kever),
                     IF aid \in h.habs
                     THEN AddEnds(h.ends[aid].roleUrls) \o AddEnds(h.ends[aid].witnessUrls)
                     ELSE <<>>,
                     designated_aliases(h, aid, DES_ALIASES_SCHEMA))
        Checked(webs, keri) ==
            IF ~webs.ok THEN webs
            ELSE IF ~keri.ok THEN keri
            ELSE IF aid \notin DOMAIN h.kevers THEN Err("UnknownAID")
            ELSE Generated(h.kevers[aid]) IN
    Checked(WebsIdentifierCheck(d, aid), KeriIdentifierCheck(d, aid))

-----------------------------------------------------------------------------
(* The document session: generate_did_doc is called on a habery *)

WEBS_A_UPPER == Serialize([WebParts0 EXCEPT !.scheme = DID_WEBS_COLON_UPPER])
WEB_A_QUERY == Serialize([WebParts0 EXCEPT !.scheme = DID_WEB_COLON, !.port = PORT,
                                           !.path = PATH_ONE, !.query = QUERY_VERSION])
WEBS_BAD == Serialize([WebParts0 EXCEPT !.aid = AID_BAD])

\* a did:keri DID whose identifier segment only ends with AID_B
KERI_ENDS_WITH_B == DID_KERI_COLON \o <<"X">> \o AID_B

DocDids == {WEBS_A, WEB_A_QUERY, WEBS_A_UPPER, KERI_A, KERI_ENDS_WITH_B, WEBS_BAD}

\* the caller-supplied identifier: a known one, an unknown one, a proper suffix
\* of AID_A, the empty string
DocAids == {AID_A, AID_B, AID_C, Slice(AID_A, 2, Len(AID_A)), <<>>}

Clock == {"2024-01-01T00:00:00Z"}

Registries ==
    { [s \in Saids |-> Absent],
      [s \in Saids |-> IF s = 1 THEN "iss" ELSE Absent],
      [s \in Saids |-> IF s = 1 THEN "rev" ELSE IF s = 2 THEN "bis" ELSE Absent] }

\* the endpoints of a local identifier with two witnesses: the witness role
\* is added once per witness, each time with the one witness's urls
TwoWitnessEnds ==
    [roleUrls |-> LocalEnds.roleUrls,
     witnessUrls |-> << [role |-> ROLE_WITNESS,
                         eids |-> << [eid |-> WITNESS_1,
                                      urls |-> [http |-> "http://127.0.0.1:5642/"]] >>],
                        [role |-> ROLE_WITNESS,
                         eids |-> << [eid |-> AID_C,
                                      urls |-> [http |-> "http://127.0.0.1:5643/"]] >>] >>]

InitDoc ==
    /\ hby \in [habs : {{AID_A}},
                kevers : {AID_A :> ks @@ AID_B :> TwoOfThree : ks \in {SingleKey, TwoOfThree, WeightedKeys}},
                reger : Registries,
                ends : {AID_A :> LocalEnds, AID_A :> TwoWitnessEnds},
                locs : {WITNESS_1 :> WitnessLocs}]
    /\ docOut = Idle
    /\ IdleDid /\ IdleVM /\ IdleConv

GenerateDidDoc(d, aid, meta, now) ==
    /\ docOut = Idle
    /\ docOut' = [call |-> "generate_did_doc", did |-> d, aid |-> aid, meta |-> meta,
                  ret |-> generate_did_doc(hby, d, aid, meta, now)]
    /\ UNCHANGED <<hby, didVars, vmVars, convVars>>

NextDoc ==
    \/ \E d \in DocDids, aid \in DocAids, meta \in BOOLEAN, now \in Clock :
           GenerateDidDoc(d, aid, meta, now)
    \/ Release

SpecDoc == InitDoc /\ [][NextDoc]_vars

-----------------------------------------------------------------------------
(* Properties of generate_did_doc *)

DocReturned == docOut # Idle /\ docOut.call = "generate_did_doc"

\* the identifier segment of the DID, as the DID expressions delimit it; None
\* when the string is no DID of the three schemes
EmbeddedIdentifier(d) ==
    IF DID_WEBS_RE(d).matched THEN DID_WEBS_RE(d).aid ELSE DID_KERI_RE(d)

\* C8: generate_did_doc returns no document whenever the identifier embedded
\* in the DID differs from the caller-supplied identifier, for every DID
\* scheme and every caller-supplied identifier.
C8_MismatchedIdentifierFails ==
    (/\ DocReturned
     /\ EmbeddedIdentifier(docOut.did) # None
     /\ EmbeddedIdentifier(docOut.did) # docOut.aid)
    => ~docOut.ret.ok

-----------------------------------------------------------------------------
(* The scheme converter.  Documents are Python dicts, passed by reference:  *)
(* heap maps each reference to the object it names.  A DID document is a   *)
(* record with id, verificationMethod, service and alsoKnownAs; a          *)
(* resolution result holds, in didDocument, the reference of its document; *)
(* the empty dict is the empty function.                                   *)

\* most converter calls of one session
MaxCalls == 2

EmptyDict == <<>>

HasKey(obj, key) == key \in DOMAIN obj

\* the reference the caller holds
CallerRef == 1
\* the reference of the document inside the caller's resolution result
InnerRef == 2

\* the verification methods that have no 'controller' key
MissingController(vms) == {i \in 1..Len(vms) : ~HasKey(vms[i], "controller")}

\* the number of verification methods the loop rewrites: all of them, or
\* those before the first one whose 'controller' lookup raises KeyError
LoopEnd(vms) ==
    IF MissingController(vms) = {} THEN Len(vms)
    ELSE (CHOOSE i \in MissingController(vms) : \A k \in MissingController(vms) : i <= k) - 1

\* the dict as diddoc_to_did_web leaves it (it has 'id' and 'verificationMethod')
diddoc_to_did_web(diddoc) ==
    [diddoc EXCEPT
        !.id = Replace(@, DID_WEBS, DID_WEB),
        !.verificationMethod =
            [i \in 1..Len(@) |->
                IF i <= LoopEnd(@)
                THEN [@[i] EXCEPT !.controller = Replace(@, DID_WEBS, DID_WEB)]
                ELSE @[i]]]

\* rewrites only a string that holds did:web and does not hold did:webs
ToWebsScheme(s) ==
    IF Contains(s, DID_WEB) /\ ~Contains(s, DID_WEBS)
    THEN Replace(s, DID_WEB, DID_WEBS) ELSE s

\* the dict as diddoc_to_did_webs leaves it (it has 'id' and 'verificationMethod')
diddoc_to_did_webs(diddoc) ==
    [diddoc EXCEPT
        !.id = ToWebsScheme(@),
        !.verificationMethod =
            [i \in 1..Len(@) |->
                IF i <= LoopEnd(@)
                THEN [@[i] EXCEPT !.controller = ToWebsScheme(@)]
                ELSE @[i]]]

\* a call's outcome: the heap it leaves and what it returns (a reference)
Outcome(h, r) == [heap |-> h, ret |-> r]

\* diddoc_to_did_web on the object at ref, in place: a missing key raises
\* KeyError where it is read, after the assignments made before it
ConvertToWebAt(h, ref, result) ==
    IF ~HasKey(h[ref], "id") THEN Outcome(h, Err("KeyError"))
    ELSE IF ~HasKey(h[ref], "verificationMethod")
         THEN Outcome([h EXCEPT ![ref].id = Replace(@, DID_WEBS, DID_WEB)], Err("KeyError"))
    ELSE Outcome([h EXCEPT ![ref] = diddoc_to_did_web(@)],
                 IF MissingController(h[ref].verificationMethod) = {}
                 THEN Ok(result) ELSE Err("KeyError"))

to_did_web(h, ref, meta) ==
    IF h[ref] = EmptyDict THEN Outcome(h, Err("DidWebsError"))
    ELSE IF meta
         THEN IF ~HasKey(h[ref], "didDocument") THEN Outcome(h, Err("KeyError"))
              ELSE ConvertToWebAt(h, h[ref].didDocument, ref)
    ELSE ConvertToWebAt(h, ref, ref)

\* diddoc['verificationMethod'][0]['controller'] is read first, then
\* diddoc_to_did_webs runs on the object at ref, in place: it reads
\* diddoc['id'], then each method's controller
ConvertToWebsAt(h, ref, result) ==
    IF ~HasKey(h[ref], "verificationMethod") THEN Outcome(h, Err("KeyError"))
    ELSE IF h[ref].verificationMethod = <<>> THEN Outcome(h, Err("IndexError"))
    ELSE IF ~HasKey(h[ref].verificationMethod[1], "controller")
         THEN Outcome(h, Err("KeyError"))
    ELSE IF ~HasKey(h[ref], "id") THEN Outcome(h, Err("KeyError"))
    ELSE Outcome([h EXCEPT ![ref] = diddoc_to_did_webs(@)],
                 IF MissingController(h[ref].verificationMethod) = {}
                 THEN Ok(result) ELSE Err("KeyError"))

from_did_web(h, ref, meta) ==
    IF meta /\ ~HasKey(h[ref], "didDocument") THEN Outcome(h, Err("ValueError"))
    ELSE IF meta THEN ConvertToWebsAt(h, h[ref].didDocument, ref)
    ELSE ConvertToWebsAt(h, ref, ref)

-----------------------------------------------------------------------------
(* The converter session: the caller holds a document that generate_did_doc *)
(* returned (or an empty dict) and calls to_did_web and from_did_web on it. *)

PATH_DID_WEB == DID_WEB
WEBS_A_FULL == Serialize([WebParts0 EXCEPT !.port = PORT, !.path = PATH_ONE,
                                           !.query = QUERY_VERSION])
WEBS_A_NESTED == Serialize([WebParts0 EXCEPT !.path = PATH_DID_WEB])

ConvDids == {WEBS_A, WEBS_A_FULL, WEBS_A_NESTED, WEB_A, KERI_A}

ConvHby(ks) ==
    [habs |-> {AID_A}, kevers |-> (AID_A :> ks),
     reger |-> [s \in Saids |-> IF s = 1 THEN "iss" ELSE Absent],
     ends |-> (AID_A :> LocalEnds), locs |-> (WITNESS_1 :> WitnessLocs)]

\* the heap that holds what generate_did_doc returned
HeapOf(d, ks, meta) ==
    LET Held(r) ==
            IF meta
            THEN (CallerRef :> [r EXCEPT !.didDocument = InnerRef]) @@ (InnerRef :> r.didDocument)
            ELSE (CallerRef :> r) IN
    Held(generate_did_doc(ConvHby(ks), d, AID_A, meta, "2024-01-01T00:00:00Z").val)

\* a dict without the key
WithoutKey(obj, key) == [f \in DOMAIN obj \ {key} |-> obj[f]]

\* documents as a did.json read from elsewhere may be: one without 'id', and
\* one whose second verification method has no 'controller'
MalformedDocs ==
    LET Of(doc) ==
            {WithoutKey(doc, "id"),
             [doc EXCEPT !.verificationMethod[2] = WithoutKey(@, "controller")]} IN
    Of(HeapOf(WEB_A, TwoOfThree, FALSE)[CallerRef])

InitialHeaps ==
    {HeapOf(d, ks, meta) : d \in ConvDids, ks \in {SingleKey, TwoOfThree}, meta \in BOOLEAN}
    \cup {(CallerRef :> EmptyDict)}
    \cup {(CallerRef :> doc) : doc \in MalformedDocs}

InitConv ==
    /\ heap \in InitialHeaps
    /\ conv = [orig |-> heap, log |-> <<>>]
    /\ IdleDid /\ IdleVM /\ IdleDoc

Call(fn, meta, o) ==
    /\ Len(conv.log) < MaxCalls
    /\ heap' = o.heap
    /\ conv' = [conv EXCEPT !.log = Append(@, [fn |-> fn, meta |-> meta,
                                               before |-> heap, ret |-> o.ret])]
    /\ UNCHANGED <<didVars, vmVars, docVars>>

ToDidWeb(meta) == Call("to_did_web", meta, to_did_web(heap, CallerRef, meta))

FromDidWeb(meta) == Call("from_did_web", meta, from_did_web(heap, CallerRef, meta))

NextConv ==
    \/ \E meta \in BOOLEAN : ToDidWeb(meta)
    \/ \E meta \in BOOLEAN : FromDidWeb(meta)

SpecConv == InitConv /\ [][NextConv]_vars

-----------------------------------------------------------------------------
(* Properties of the scheme converter *)

\* the DID document a heap holds for the caller, read with or without meta
DocOf(h, meta) == IF meta THEN h[h[CallerRef].didDocument] ELSE h[CallerRef]

HoldsDoc(h, meta) ==
    IF meta THEN HasKey(h[CallerRef], "didDocument") ELSE HasKey(h[CallerRef], "id")

IsDidWebs(d) == StartsWith(d, DID_WEBS_COLON) /\ parse_did_webs(d).ok

Controllers(doc) ==
    [i \in 1..Len(doc.verificationMethod) |-> doc.verificationMethod[i].controller]

RoundTripDone(meta) ==
    /\ Len(conv.log) >= 2
    /\ conv.log[1].fn = "to_did_web" /\ conv.log[1].meta = meta
    /\ conv.log[2].fn = "from_did_web" /\ conv.log[2].meta = meta
    /\ HoldsDoc(conv.orig, meta)

\* C3: for a document whose id is a did:webs DID, from_did_web(to_did_web(doc))
\* has the id and the verificationMethod controllers of the original
\* document, with meta False and with meta True.
C3_SchemeRoundTrip ==
    \A meta \in BOOLEAN :
        (RoundTripDone(meta) /\ IsDidWebs(DocOf(conv.orig, meta).id))
        => /\ conv.log[1].ret.ok /\ conv.log[2].ret.ok
           /\ LET after == IF Len(conv.log) = 2 THEN heap ELSE conv.log[3].before IN
              /\ DocOf(after, meta).id = DocOf(conv.orig, meta).id
              /\ Controllers(DocOf(after, meta)) = Controllers(DocOf(conv.orig, meta))

LastCall == conv.log[Len(conv.log)]

\* C10: after to_did_web or from_did_web returns, the document object the
\* caller passed in (its id, its controllers, its didDocument field) is as it
\* was before the call.
C10_CallerDocumentUnchanged ==
    (conv.log # <<>> /\ LastCall.ret.ok) => heap = LastCall.before


-----------------------------------------------------------------------------
(* Further properties of strip_query and of designated_aliases *)

\* two parse results name the same domain, port, path and identifier; an
\* absent component is None and equals only None
SameComponents(a, b) ==
    /\ a.domain = b.domain
    /\ a.port = b.port
    /\ a.path = b.path
    /\ a.aid = b.aid

\* C11: for every valid did:web or did:webs DID, strip_query returns a DID
\* without query that parse_did_webs parses to the domain, port, path and
\* identifier of the input, an absent port or path staying absent; for a
\* did:keri DID the input is returned unchanged.
C11_StripQueryKeepsComponents ==
    (op = "strip_query" /\ n = 1) =>
        /\ parse_did_webs(did).ok =>
              /\ out.ok
              /\ ~HasQuery(out.val)
              /\ parse_did_webs(out.val).ok
              /\ SameComponents(parse_did_webs(out.val).val, parse_did_webs(did).val)
        /\ parse_did_keri(did).ok => out = Ok(did)

\* a credential that matches the lookup of aid and names no issuee
SelfAttested(s, aid) == MatchesLookup(s, aid) /\ Credentials[s].issuee = None

\* the aliases of the credentials of a set, flattened in SAID order
AliasesOf(S) ==
    Flatten([k \in 1..Cardinality(S) |-> Credentials[SaidsInOrder(S, 1)[k]].ids])

\* C12: the aliases designated_aliases returns come from self-attested
\* credentials only: the output is the flattened alias lists of some of the
\* matching credentials that name no issuee, so a credential with a distinct
\* issuee contributes nothing, whatever its status.
C12_OnlySelfAttestedAliases ==
    AliasesReturned =>
        \E S \in SUBSET {s \in Saids : SelfAttested(s, docOut.aid)} :
            docOut.ret = AliasesOf(S)
=============================================================================
